---- MODULE Spec2Model ----
(***************************************************************************)
(* Model of the AD5253/AD5254 digital potentiometer driver                 *)
(* (src/AD525x/AD525x.cpp).  The handle (variant, initialized, dev_addr,   *)
(* err_code) is driven by one action per public method.  The two-wire bus  *)
(* is recorded as the sequence of Wire calls made by the last method, and  *)
(* the chip behind the bus is a register file (rdac, eemem, tolerance).    *)
(* Values returned by read_tolerance are kept in units of 1/256.           *)
(***************************************************************************)
EXTENDS Integers, Sequences, FiniteSets, TLC

VARIABLES variant, initialized, dev_addr, err_code, wire_begun,
          rdac, eemem, bus, last, nops

vars == <<variant, initialized, dev_addr, err_code, wire_begun,
          rdac, eemem, bus, last, nops>>

\* ------------------------------------------------------------------ bounds
MaxOps == 3

\* ------------------------------------------------------- program constants
base_I2C_addr == 44
max_AD_addr == 3
max_RDAC_register == 3
max_EEMEM_register == 15
AD5253_max_val == 63
AD5254_max_val == 255

RDAC_register == 0
EEMEM_register == 32
Tolerance_register == 56
Tol_int == 0
Tol_dec == 1

CMD_NOP == 128
CMD_Restore_RDAC == 136
CMD_Store_RDAC == 144
CMD_Dec_RDAC_6dB == 152
CMD_Dec_All_RDAC_6dB == 160
CMD_Dec_RDAC_step == 168
CMD_Dec_All_RDAC_step == 176
CMD_Restore_All_RDAC == 184
CMD_Inc_RDAC_6dB == 192
CMD_Inc_All_RDAC_6dB == 200
CMD_Inc_RDAC_step == 208
CMD_Inc_All_RDAC_step == 216

EC_NO_ERR == 0
EC_DATA_LONG == 1
EC_NACK_ADDR == 2
EC_NACK_DATA == 3
EC_I2C_OTHER == 4
EC_BAD_REGISTER == 5
EC_BAD_WIPER_SETTING == 6
EC_BAD_READ_SIZE == 7
EC_BAD_DEVICE_ADDR == 8
EC_NOT_IMPLEMENTED == 9
EC_NOT_INITIALIZED == 10

\* ------------------------------------------------------------ input domains
Variants == {"AD525x", "AD5253", "AD5254"}
Concrete == {"AD5253", "AD5254"}

\* uint8_t arguments handed to the public methods
SelectorSamples == {0, 3, 4}
RDACSamples == {2, 3, 4}
RegSamples == {1, 3, 4, 15, 16}
ValueSamples == {0, 63, 64, 255}

\* what the Wire library can answer: results of endTransmission (the first and
\* the last of its error codes stand for all four) and counts of requestFrom
I2CResults == {EC_NO_ERR, EC_DATA_LONG, EC_I2C_OTHER}
ByteCounts == {0, 1, 2}

\* bytes a read through the dangling buffer pointer can produce besides the
\* byte that was stored there
StaleBytes == {170}

\* ------------------------------------------------------- 8-bit arithmetic
U8(n) == n % 256

Bit(n, k) == (n \div (2^k)) % 2

RECURSIVE OrFrom(_, _, _)
OrFrom(a, b, k) ==
    IF k > 7 THEN 0
    ELSE (IF Bit(a, k) = 1 \/ Bit(b, k) = 1 THEN 2^k ELSE 0) + OrFrom(a, b, k + 1)

BitOr(a, b) == OrFrom(a, b, 0)

RECURSIVE AndFrom(_, _, _)
AndFrom(a, b, k) ==
    IF k > 7 THEN 0
    ELSE (IF Bit(a, k) = 1 /\ Bit(b, k) = 1 THEN 2^k ELSE 0) + AndFrom(a, b, k + 1)

BitAnd(a, b) == AndFrom(a, b, 0)

Shl8(a, n) == U8(a * (2^n))

Min(a, b) == IF a < b THEN a ELSE b

\* ------------------------------------------------------------ the chip
\* Largest wiper position of the chip on the bus.
DeviceMax == IF variant = "AD5253" THEN AD5253_max_val ELSE AD5254_max_val

\* Factory tolerance bytes at instruction 0x38 | k, k = (wiper << 1) | part.
FactoryTolerance == <<5, 128, 133, 0, 0, 1, 255, 255>>

\* The register an instruction byte selects for a read.
DevRead(instr) ==
    IF instr <= max_RDAC_register THEN rdac[instr]
    ELSE IF instr >= EEMEM_register /\ instr <= EEMEM_register + max_EEMEM_register
         THEN eemem[instr - EEMEM_register]
    ELSE IF instr >= Tolerance_register /\ instr <= Tolerance_register + 7
         THEN FactoryTolerance[instr - Tolerance_register + 1]
    ELSE 0

\* Register file after an acknowledged two-byte write (instruction, data).
DevWrite(instr, data) ==
    IF instr <= max_RDAC_register
    THEN [r |-> [rdac EXCEPT ![instr] = data], e |-> eemem]
    ELSE IF instr >= EEMEM_register /\ instr <= EEMEM_register + max_EEMEM_register
         THEN [r |-> rdac, e |-> [eemem EXCEPT ![instr - EEMEM_register] = data]]
    ELSE [r |-> rdac, e |-> eemem]

\* Register file after an acknowledged command byte.
DevCmd(cmd) ==
    LET op == cmd - (cmd % 8)
        i == cmd % 4
        all(f(_)) == [k \in 0..max_RDAC_register |-> f(rdac[k])]
        one(f(_)) == [rdac EXCEPT ![i] = f(rdac[i])]
        dec(x) == IF x = 0 THEN 0 ELSE x - 1
        inc(x) == Min(x + 1, DeviceMax)
        half(x) == x \div 2
        dbl(x) == Min(2 * x, DeviceMax)
    IN  IF op = CMD_Restore_RDAC THEN [r |-> [rdac EXCEPT ![i] = eemem[i]], e |-> eemem]
        ELSE IF op = CMD_Store_RDAC THEN [r |-> rdac, e |-> [eemem EXCEPT ![i] = rdac[i]]]
        ELSE IF op = CMD_Dec_RDAC_6dB THEN [r |-> one(half), e |-> eemem]
        ELSE IF op = CMD_Dec_All_RDAC_6dB THEN [r |-> all(half), e |-> eemem]
        ELSE IF op = CMD_Dec_RDAC_step THEN [r |-> one(dec), e |-> eemem]
        ELSE IF op = CMD_Dec_All_RDAC_step THEN [r |-> all(dec), e |-> eemem]
        ELSE IF op = CMD_Restore_All_RDAC
             THEN [r |-> [k \in 0..max_RDAC_register |-> eemem[k]], e |-> eemem]
        ELSE IF op = CMD_Inc_RDAC_6dB THEN [r |-> one(dbl), e |-> eemem]
        ELSE IF op = CMD_Inc_All_RDAC_6dB THEN [r |-> all(dbl), e |-> eemem]
        ELSE IF op = CMD_Inc_RDAC_step THEN [r |-> one(inc), e |-> eemem]
        ELSE IF op = CMD_Inc_All_RDAC_step THEN [r |-> all(inc), e |-> eemem]
        ELSE [r |-> rdac, e |-> eemem]

\* ------------------------------------------------------------ Wire calls
EvWireBegin == [call |-> "begin", arg |-> 0, len |-> 0, res |-> 0]
EvBegin(a) == [call |-> "beginTransmission", arg |-> a, len |-> 0, res |-> 0]
EvWrite(b) == [call |-> "write", arg |-> b, len |-> 0, res |-> 0]
EvEnd(e) == [call |-> "endTransmission", arg |-> 0, len |-> 0, res |-> e]
EvRequest(a, length, n) == [call |-> "requestFrom", arg |-> a, len |-> length, res |-> n]
EvAvailable(n) == [call |-> "available", arg |-> 0, len |-> 0, res |-> n]
EvRead(b) == [call |-> "read", arg |-> 0, len |-> 0, res |-> b]

\* Replies of the bus to one read_data call: <<result of the first
\* endTransmission, count returned by requestFrom, result of the second
\* endTransmission>>.  Replies the code never looks at are left at 0 / 1.
OkReply == <<0, 1, 0>>

ReadReplies ==
    {<<e1, 1, 0>> : e1 \in I2CResults \ {EC_NO_ERR}}
    \cup {<<0, n, 0>> : n \in ByteCounts \ {1}}
    \cup {<<0, 1, e2>> : e2 \in I2CResults}

\* The bus only answers a method that reaches it: o0 is the method's outcome
\* on a bus without errors.
WriteReplies(o0) == IF o0.bus = <<>> THEN {EC_NO_ERR} ELSE I2CResults
ReadRepliesOf(o0) == IF o0.bus = <<>> THEN {OkReply} ELSE ReadReplies

\* ---------------------------------------------- private I2C functions
\* Each returns the Wire calls it made, the err_code it leaves, its return
\* value and the register file after the transaction.

Unchanged == [r |-> rdac, e |-> eemem]

\* write_cmd that keeps the err_code of an earlier call when it succeeds
write_cmd_sticky(cmd_register, e) ==
    [bus |-> <<EvBegin(dev_addr), EvWrite(cmd_register), EvEnd(e)>>,
     err |-> IF e = EC_NO_ERR THEN err_code ELSE e, ret |-> e,
     dev |-> IF e = EC_NO_ERR THEN DevCmd(cmd_register) ELSE Unchanged]

write_cmd(cmd_register, e) ==
    [bus |-> <<EvBegin(dev_addr), EvWrite(cmd_register), EvEnd(e)>>,
     err |-> e, ret |-> e,
     dev |-> IF e = EC_NO_ERR THEN DevCmd(cmd_register) ELSE Unchanged]

\* write_data with the two bytes sent in the wrong order
write_data_swapped(register_addr, data, e) ==
    [bus |-> <<EvBegin(dev_addr), EvWrite(data), EvWrite(register_addr), EvEnd(e)>>,
     err |-> e, ret |-> e,
     dev |-> IF e = EC_NO_ERR THEN DevWrite(data, register_addr) ELSE Unchanged]

write_data(register_addr, data, e) ==
    [bus |-> <<EvBegin(dev_addr), EvWrite(register_addr), EvWrite(data), EvEnd(e)>>,
     err |-> e, ret |-> e,
     dev |-> IF e = EC_NO_ERR THEN DevWrite(register_addr, data) ELSE Unchanged]

\* read_data that forgets to set err_code on a wrong byte count
read_data_silent_count(register_addr, length, reply) ==
    LET e1 == reply[1]
        n == reply[2]
        e2 == reply[3]
        b == DevRead(register_addr)
        t1 == <<EvBegin(dev_addr), EvWrite(register_addr), EvEnd(e1)>>
        t2 == <<EvBegin(dev_addr), EvRequest(dev_addr, length, n)>>
    IN  IF e1 > 0 THEN [bus |-> t1, err |-> e1, null |-> TRUE, buff |-> 0]
        ELSE IF n # length
             THEN [bus |-> t1 \o t2, err |-> e1, null |-> TRUE, buff |-> 0]
        ELSE [bus |-> t1 \o t2 \o <<EvAvailable(n), EvRead(b), EvEnd(e2)>>,
              err |-> e2, null |-> e2 > 0, buff |-> b]

\* read_data reporting a failed closing endTransmission as a bad read size
read_data_masks_end(register_addr, length, reply) ==
    LET e1 == reply[1]
        n == reply[2]
        e2 == reply[3]
        b == DevRead(register_addr)
        t1 == <<EvBegin(dev_addr), EvWrite(register_addr), EvEnd(e1)>>
        t2 == <<EvBegin(dev_addr), EvRequest(dev_addr, length, n)>>
    IN  IF e1 > 0 THEN [bus |-> t1, err |-> e1, null |-> TRUE, buff |-> 0]
        ELSE IF n # length
             THEN [bus |-> t1 \o t2, err |-> EC_BAD_READ_SIZE, null |-> TRUE, buff |-> 0]
        ELSE [bus |-> t1 \o t2 \o <<EvAvailable(n), EvRead(b), EvEnd(e2)>>,
              err |-> IF e2 > 0 THEN EC_BAD_READ_SIZE ELSE e2, null |-> e2 > 0, buff |-> b]

\* read_data taking a byte off the bus although the count was wrong
read_data_reads_anyway(register_addr, length, reply) ==
    LET e1 == reply[1]
        n == reply[2]
        e2 == reply[3]
        b == DevRead(register_addr)
        t1 == <<EvBegin(dev_addr), EvWrite(register_addr), EvEnd(e1)>>
        t2 == <<EvBegin(dev_addr), EvRequest(dev_addr, length, n)>>
    IN  IF e1 > 0 THEN [bus |-> t1, err |-> e1, null |-> TRUE, buff |-> 0]
        ELSE IF n # length
             THEN [bus |-> t1 \o t2 \o <<EvRead(b)>>, err |-> EC_BAD_READ_SIZE,
                   null |-> TRUE, buff |-> 0]
        ELSE [bus |-> t1 \o t2 \o <<EvAvailable(n), EvRead(b), EvEnd(e2)>>,
              err |-> e2, null |-> e2 > 0, buff |-> b]

\* null: read_data returned NULL; buff: the byte stored in the local buffer
\* the returned pointer refers to.
read_data(register_addr, length, reply) ==
    LET e1 == reply[1]
        n == reply[2]
        e2 == reply[3]
        b == DevRead(register_addr)
        t1 == <<EvBegin(dev_addr), EvWrite(register_addr), EvEnd(e1)>>
        t2 == <<EvBegin(dev_addr), EvRequest(dev_addr, length, n)>>
    IN  IF e1 > 0 THEN [bus |-> t1, err |-> e1, null |-> TRUE, buff |-> 0]
        ELSE IF n # length
             THEN [bus |-> t1 \o t2, err |-> EC_BAD_READ_SIZE, null |-> TRUE, buff |-> 0]
        ELSE [bus |-> t1 \o t2 \o <<EvAvailable(n), EvRead(b), EvEnd(e2)>>,
              err |-> e2, null |-> e2 > 0, buff |-> b]

\* The values rv[0] can yield: read_data hands back the address of its own
\* local buffer, so the read happens after the buffer's lifetime has ended.
DanglingRead(register_addr, reply) ==
    LET r == read_data(register_addr, 1, reply)
    IN  IF r.null THEN {0} ELSE {r.buff} \cup StaleBytes

\* g is the value the read of rv[0] produced.
read_data_byte(register_addr, reply, g) ==
    LET r == read_data(register_addr, 1, reply)
    IN  [bus |-> r.bus, err |-> r.err, ret |-> IF r.null THEN 0 ELSE g]

\* ------------------------------------------------------ variant table
\* get_max_val clearing err_code on the concrete variants
get_max_val_clears_error ==
    IF variant = "AD5253" THEN [ret |-> AD5253_max_val, err |-> EC_NO_ERR]
    ELSE IF variant = "AD5254" THEN [ret |-> AD5254_max_val, err |-> EC_NO_ERR]
    ELSE [ret |-> 0, err |-> EC_NOT_IMPLEMENTED]

\* get_max_val answering 255 on the base type instead of failing
get_max_val_base_answers ==
    IF variant = "AD5253" THEN [ret |-> AD5253_max_val, err |-> err_code]
    ELSE [ret |-> AD5254_max_val, err |-> err_code]

\* get_max_val: the value returned and the err_code left behind.
get_max_val ==
    IF variant = "AD5253" THEN [ret |-> AD5253_max_val, err |-> err_code]
    ELSE IF variant = "AD5254" THEN [ret |-> AD5254_max_val, err |-> err_code]
    ELSE [ret |-> 0, err |-> EC_NOT_IMPLEMENTED]

\* ------------------------------------------------------ public methods
\* Outcome of a method that stopped before touching the bus.
Stop(code, ret, path) ==
    [err |-> code, ret |-> ret, path |-> path, bus |-> <<>>, dev |-> Unchanged]

\* Outcome of a method that ran a bus write (write_data / write_cmd).
Sent(w) ==
    [err |-> w.err, ret |-> w.ret,
     path |-> IF w.err = EC_NO_ERR THEN "ok" ELSE "i2c",
     bus |-> w.bus, dev |-> w.dev]

\* Outcome of a method that ran read_data_byte and returns ret.
Got(rd, ret) ==
    [err |-> rd.err, ret |-> ret,
     path |-> IF rd.err = EC_NO_ERR THEN "ok"
              ELSE IF rd.err = EC_BAD_READ_SIZE THEN "count" ELSE "i2c",
     bus |-> rd.bus, dev |-> Unchanged]

\* write_RDAC checking the index against the EEMEM limit
write_RDAC_wrong_limit(RDAC, value, e) ==
    IF ~initialized THEN Stop(EC_NOT_INITIALIZED, EC_NOT_INITIALIZED, "not_init")
    ELSE IF RDAC > max_EEMEM_register THEN Stop(EC_BAD_REGISTER, EC_BAD_REGISTER, "bad_reg")
    ELSE LET max_value == get_max_val
         IN  IF max_value.ret = 0 THEN Stop(max_value.err, max_value.err, "not_impl")
             ELSE IF value > max_value.ret
                  THEN Stop(EC_BAD_WIPER_SETTING, EC_BAD_WIPER_SETTING, "bad_val")
             ELSE Sent(write_data(BitOr(RDAC_register, RDAC), value, e))

\* write_RDAC rejecting the maximum wiper value itself
write_RDAC_off_by_one(RDAC, value, e) ==
    IF ~initialized THEN Stop(EC_NOT_INITIALIZED, EC_NOT_INITIALIZED, "not_init")
    ELSE IF RDAC > max_RDAC_register THEN Stop(EC_BAD_REGISTER, EC_BAD_REGISTER, "bad_reg")
    ELSE LET max_value == get_max_val
         IN  IF max_value.ret = 0 THEN Stop(max_value.err, max_value.err, "not_impl")
             ELSE IF value >= max_value.ret
                  THEN Stop(EC_BAD_WIPER_SETTING, EC_BAD_WIPER_SETTING, "bad_val")
             ELSE Sent(write_data(BitOr(RDAC_register, RDAC), value, e))

\* write_RDAC checking the value before the index
write_RDAC_value_first(RDAC, value, e) ==
    IF ~initialized THEN Stop(EC_NOT_INITIALIZED, EC_NOT_INITIALIZED, "not_init")
    ELSE LET max_value == get_max_val
         IN  IF max_value.ret # 0 /\ value > max_value.ret
             THEN Stop(EC_BAD_WIPER_SETTING, EC_BAD_WIPER_SETTING, "bad_val")
             ELSE IF RDAC > max_RDAC_register
                  THEN Stop(EC_BAD_REGISTER, EC_BAD_REGISTER, "bad_reg")
             ELSE IF max_value.ret = 0 THEN Stop(max_value.err, max_value.err, "not_impl")
             ELSE Sent(write_data(BitOr(RDAC_register, RDAC), value, e))

write_RDAC(RDAC, value, e) ==
    IF ~initialized THEN Stop(EC_NOT_INITIALIZED, EC_NOT_INITIALIZED, "not_init")
    ELSE IF RDAC > max_RDAC_register THEN Stop(EC_BAD_REGISTER, EC_BAD_REGISTER, "bad_reg")
    ELSE LET max_value == get_max_val
         IN  IF max_value.ret = 0 THEN Stop(max_value.err, max_value.err, "not_impl")
             ELSE IF value > max_value.ret
                  THEN Stop(EC_BAD_WIPER_SETTING, EC_BAD_WIPER_SETTING, "bad_val")
             ELSE Sent(write_data(BitOr(RDAC_register, RDAC), value, e))

read_RDAC(RDAC, reply, g) ==
    IF ~initialized THEN Stop(EC_NOT_INITIALIZED, 0, "not_init")
    ELSE IF RDAC > max_RDAC_register THEN Stop(EC_BAD_REGISTER, 0, "bad_reg")
    ELSE LET rv == read_data_byte(BitOr(RDAC_register, RDAC), reply, g)
         IN  Got(rv, IF rv.err # 0 THEN 0 ELSE rv.ret)

\* write_EEMEM without the check of values bound for a wiper shadow register
write_EEMEM_no_shadow_check(reg, value, e) ==
    IF ~initialized THEN Stop(EC_NOT_INITIALIZED, EC_NOT_INITIALIZED, "not_init")
    ELSE LET max_value == get_max_val
         IN  IF max_value.ret = 0 THEN Stop(max_value.err, max_value.err, "not_impl")
             ELSE IF reg > max_EEMEM_register
                  THEN Stop(EC_BAD_REGISTER, EC_BAD_REGISTER, "bad_reg")
             ELSE Sent(write_data(BitOr(EEMEM_register, reg), value, e))

\* write_EEMEM applying the wiper check to every EEMEM register
write_EEMEM_all_shadow(reg, value, e) ==
    IF ~initialized THEN Stop(EC_NOT_INITIALIZED, EC_NOT_INITIALIZED, "not_init")
    ELSE LET max_value == get_max_val
         IN  IF max_value.ret = 0 THEN Stop(max_value.err, max_value.err, "not_impl")
             ELSE IF reg <= max_EEMEM_register /\ value < max_value.ret
                  THEN Stop(EC_BAD_WIPER_SETTING, EC_BAD_WIPER_SETTING, "bad_val")
             ELSE IF reg > max_EEMEM_register
                  THEN Stop(EC_BAD_REGISTER, EC_BAD_REGISTER, "bad_reg")
             ELSE Sent(write_data(BitOr(EEMEM_register, reg), value, e))

write_EEMEM(reg, value, e) ==
    IF ~initialized THEN Stop(EC_NOT_INITIALIZED, EC_NOT_INITIALIZED, "not_init")
    ELSE LET max_value == get_max_val
         IN  IF max_value.ret = 0 THEN Stop(max_value.err, max_value.err, "not_impl")
             ELSE IF reg <= max_RDAC_register /\ value < max_value.ret
                  THEN Stop(EC_BAD_WIPER_SETTING, EC_BAD_WIPER_SETTING, "bad_val")
             ELSE IF reg > max_EEMEM_register
                  THEN Stop(EC_BAD_REGISTER, EC_BAD_REGISTER, "bad_reg")
             ELSE Sent(write_data(BitOr(EEMEM_register, reg), value, e))

\* read_EEMEM without the initialized check
read_EEMEM_unchecked(reg, reply, g) ==
    IF reg > max_EEMEM_register THEN Stop(EC_BAD_REGISTER, 0, "bad_reg")
    ELSE LET rv == read_data_byte(BitOr(EEMEM_register, reg), reply, g)
         IN  Got(rv, IF rv.err # 0 THEN 0 ELSE rv.ret)

read_EEMEM(reg, reply, g) ==
    IF ~initialized THEN Stop(EC_NOT_INITIALIZED, 0, "not_init")
    ELSE IF reg > max_EEMEM_register THEN Stop(EC_BAD_REGISTER, 0, "bad_reg")
    ELSE LET rv == read_data_byte(BitOr(EEMEM_register, reg), reply, g)
         IN  Got(rv, IF rv.err # 0 THEN 0 ELSE rv.ret)

\* Decode of the two tolerance bytes, in units of 1/256.
\* the fraction with the bit weights reversed (bit 0 weighing 2^-1)
RECURSIVE TolFraction_reversed(_, _)
TolFraction_reversed(tol_dec_data, i) ==
    IF i > 7 THEN 0
    ELSE (IF BitAnd(2^i, tol_dec_data) # 0 THEN 256 \div (2 * (2^i)) ELSE 0)
         + TolFraction_reversed(tol_dec_data, i + 1)

RECURSIVE TolFraction(_, _)
TolFraction(tol_dec_data, i) ==
    IF i > 7 THEN 0
    ELSE (IF BitAnd(128 \div (2^i), tol_dec_data) # 0 THEN 256 \div (2 * (2^i)) ELSE 0)
         + TolFraction(tol_dec_data, i + 1)

TolDecode(tol_int_data, tol_dec_data) ==
    LET sign_mask == 128
        magnitude == BitAnd(255 - sign_mask, tol_int_data) * 256
        output == IF BitAnd(sign_mask, tol_int_data) # 0 THEN 0 - magnitude ELSE magnitude
    IN  output + TolFraction(tol_dec_data, 0)

\* read_tolerance going on to the fraction byte after the integer read failed
read_tolerance_continues(RDAC, reply1, g1, reply2, g2) ==
    IF ~initialized THEN Stop(EC_NOT_INITIALIZED, 0, "not_init")
    ELSE IF RDAC > max_RDAC_register THEN Stop(EC_BAD_REGISTER, 0, "bad_reg")
    ELSE LET instr_addr == BitOr(Tolerance_register, Shl8(RDAC, 1))
             tol_int_data == read_data_byte(BitOr(instr_addr, Tol_int), reply1, g1)
             tol_dec_data == read_data_byte(BitOr(instr_addr, Tol_dec), reply2, g2)
             both == [bus |-> tol_int_data.bus \o tol_dec_data.bus,
                      err |-> IF tol_int_data.err # 0 THEN tol_int_data.err ELSE tol_dec_data.err,
                      ret |-> tol_dec_data.ret]
         IN  IF both.err # 0 THEN Got(both, 0)
             ELSE Got(both, TolDecode(tol_int_data.ret, tol_dec_data.ret))

\* read_tolerance asking for the fraction byte before the integer byte
read_tolerance_fraction_first(RDAC, reply1, g1, reply2, g2) ==
    IF ~initialized THEN Stop(EC_NOT_INITIALIZED, 0, "not_init")
    ELSE IF RDAC > max_RDAC_register THEN Stop(EC_BAD_REGISTER, 0, "bad_reg")
    ELSE LET instr_addr == BitOr(Tolerance_register, Shl8(RDAC, 1))
             tol_dec_data == read_data_byte(BitOr(instr_addr, Tol_dec), reply1, g1)
             tol_int_data == read_data_byte(BitOr(instr_addr, Tol_int), reply2, g2)
             both == [bus |-> tol_dec_data.bus \o tol_int_data.bus,
                      err |-> tol_int_data.err, ret |-> tol_int_data.ret]
         IN  IF tol_dec_data.err # 0 THEN Got(tol_dec_data, 0)
             ELSE IF tol_int_data.err # 0 THEN Got(both, 0)
             ELSE Got(both, TolDecode(tol_int_data.ret, tol_dec_data.ret))

read_tolerance(RDAC, reply1, g1, reply2, g2) ==
    IF ~initialized THEN Stop(EC_NOT_INITIALIZED, 0, "not_init")
    ELSE IF RDAC > max_RDAC_register THEN Stop(EC_BAD_REGISTER, 0, "bad_reg")
    ELSE LET instr_addr == BitOr(Tolerance_register, Shl8(RDAC, 1))
             instr_addr_int == BitOr(instr_addr, Tol_int)
             instr_addr_dec == BitOr(instr_addr, Tol_dec)
             tol_int_data == read_data_byte(instr_addr_int, reply1, g1)
             tol_dec_data == read_data_byte(instr_addr_dec, reply2, g2)
             both == [bus |-> tol_int_data.bus \o tol_dec_data.bus,
                      err |-> tol_dec_data.err, ret |-> tol_dec_data.ret]
         IN  IF tol_int_data.err # 0 THEN Got(tol_int_data, 0)
             ELSE IF tol_dec_data.err # 0 THEN Got(both, 0)
             ELSE Got(both, TolDecode(tol_int_data.ret, tol_dec_data.ret))

\* ---------------------------------------------------- device commands
reset_device(e) ==
    IF ~initialized THEN Stop(EC_NOT_INITIALIZED, EC_NOT_INITIALIZED, "not_init")
    ELSE Sent(write_cmd(CMD_NOP, e))

\* restore_RDAC sending the command before it rejects the index
restore_RDAC_late_check(RDAC, e) ==
    IF ~initialized THEN Stop(EC_NOT_INITIALIZED, EC_NOT_INITIALIZED, "not_init")
    ELSE IF RDAC > max_RDAC_register
         THEN [Sent(write_cmd(BitOr(CMD_Restore_RDAC, RDAC), e))
                  EXCEPT !.err = EC_BAD_REGISTER, !.ret = EC_BAD_REGISTER, !.path = "bad_reg"]
    ELSE Sent(write_cmd(BitOr(CMD_Restore_RDAC, RDAC), e))

restore_RDAC(RDAC, e) ==
    IF ~initialized THEN Stop(EC_NOT_INITIALIZED, EC_NOT_INITIALIZED, "not_init")
    ELSE IF RDAC > max_RDAC_register THEN Stop(EC_BAD_REGISTER, EC_BAD_REGISTER, "bad_reg")
    ELSE Sent(write_cmd(BitOr(CMD_Restore_RDAC, RDAC), e))

restore_all_RDAC(e) ==
    IF ~initialized THEN Stop(EC_NOT_INITIALIZED, EC_NOT_INITIALIZED, "not_init")
    ELSE Sent(write_cmd(CMD_Restore_All_RDAC, e))

store_RDAC(RDAC, e) ==
    IF ~initialized THEN Stop(EC_NOT_INITIALIZED, EC_NOT_INITIALIZED, "not_init")
    ELSE IF RDAC > max_RDAC_register THEN Stop(EC_BAD_REGISTER, EC_BAD_REGISTER, "bad_reg")
    ELSE Sent(write_cmd(BitOr(CMD_Store_RDAC, RDAC), e))

\* decrement_RDAC issuing the all-wiper opcode
decrement_RDAC_all_opcode(RDAC, e) ==
    IF ~initialized THEN Stop(EC_NOT_INITIALIZED, EC_NOT_INITIALIZED, "not_init")
    ELSE IF RDAC > max_RDAC_register THEN Stop(EC_BAD_REGISTER, EC_BAD_REGISTER, "bad_reg")
    ELSE Sent(write_cmd(BitOr(CMD_Dec_All_RDAC_step, RDAC), e))

decrement_RDAC(RDAC, e) ==
    IF ~initialized THEN Stop(EC_NOT_INITIALIZED, EC_NOT_INITIALIZED, "not_init")
    ELSE IF RDAC > max_RDAC_register THEN Stop(EC_BAD_REGISTER, EC_BAD_REGISTER, "bad_reg")
    ELSE Sent(write_cmd(BitOr(CMD_Dec_RDAC_step, RDAC), e))

\* increment_RDAC built on the all-wiper opcode
increment_RDAC_all_opcode(RDAC, e) ==
    IF ~initialized THEN Stop(EC_NOT_INITIALIZED, EC_NOT_INITIALIZED, "not_init")
    ELSE IF RDAC > max_RDAC_register THEN Stop(EC_BAD_REGISTER, EC_BAD_REGISTER, "bad_reg")
    ELSE Sent(write_cmd(BitOr(CMD_Inc_All_RDAC_step, RDAC), e))

increment_RDAC(RDAC, e) ==
    IF ~initialized THEN Stop(EC_NOT_INITIALIZED, EC_NOT_INITIALIZED, "not_init")
    ELSE IF RDAC > max_RDAC_register THEN Stop(EC_BAD_REGISTER, EC_BAD_REGISTER, "bad_reg")
    ELSE Sent(write_cmd(BitOr(CMD_Inc_RDAC_step, RDAC), e))

decrement_RDAC_6dB(RDAC, e) ==
    IF ~initialized THEN Stop(EC_NOT_INITIALIZED, EC_NOT_INITIALIZED, "not_init")
    ELSE IF RDAC > max_RDAC_register THEN Stop(EC_BAD_REGISTER, EC_BAD_REGISTER, "bad_reg")
    ELSE Sent(write_cmd(BitOr(CMD_Dec_RDAC_6dB, RDAC), e))

increment_RDAC_6dB(RDAC, e) ==
    IF ~initialized THEN Stop(EC_NOT_INITIALIZED, EC_NOT_INITIALIZED, "not_init")
    ELSE IF RDAC > max_RDAC_register THEN Stop(EC_BAD_REGISTER, EC_BAD_REGISTER, "bad_reg")
    ELSE Sent(write_cmd(BitOr(CMD_Inc_RDAC_6dB, RDAC), e))

decrement_all_RDAC(e) ==
    IF ~initialized THEN Stop(EC_NOT_INITIALIZED, EC_NOT_INITIALIZED, "not_init")
    ELSE Sent(write_cmd(CMD_Dec_All_RDAC_step, e))

increment_all_RDAC(e) ==
    IF ~initialized THEN Stop(EC_NOT_INITIALIZED, EC_NOT_INITIALIZED, "not_init")
    ELSE Sent(write_cmd(CMD_Inc_All_RDAC_step, e))

\* decrement_all_RDAC_6dB issuing the single-wiper opcode
decrement_all_RDAC_6dB_one_opcode(e) ==
    IF ~initialized THEN Stop(EC_NOT_INITIALIZED, EC_NOT_INITIALIZED, "not_init")
    ELSE Sent(write_cmd(CMD_Dec_RDAC_6dB, e))

decrement_all_RDAC_6dB(e) ==
    IF ~initialized THEN Stop(EC_NOT_INITIALIZED, EC_NOT_INITIALIZED, "not_init")
    ELSE Sent(write_cmd(CMD_Dec_All_RDAC_6dB, e))

increment_all_RDAC_6dB(e) ==
    IF ~initialized THEN Stop(EC_NOT_INITIALIZED, EC_NOT_INITIALIZED, "not_init")
    ELSE Sent(write_cmd(CMD_Inc_All_RDAC_6dB, e))

\* ------------------------------------------------------------ initialize
\* initialize combining base address and selector with AND
initialize_and_addr(AD_addr) ==
    IF AD_addr > max_AD_addr
    THEN [init |-> FALSE, addr |-> dev_addr, err |-> EC_BAD_DEVICE_ADDR,
          ret |-> EC_BAD_DEVICE_ADDR, path |-> "bad_addr", bus |-> <<>>]
    ELSE [init |-> TRUE, addr |-> BitAnd(base_I2C_addr, AD_addr), err |-> err_code,
          ret |-> 0, path |-> "ok", bus |-> <<EvWireBegin>>]

\* initialize that does not reset the initialized flag on a bad selector
initialize_keeps_flag(AD_addr) ==
    IF AD_addr > max_AD_addr
    THEN [init |-> initialized, addr |-> dev_addr, err |-> EC_BAD_DEVICE_ADDR,
          ret |-> EC_BAD_DEVICE_ADDR, path |-> "bad_addr", bus |-> <<>>]
    ELSE [init |-> TRUE, addr |-> BitOr(base_I2C_addr, AD_addr), err |-> err_code,
          ret |-> 0, path |-> "ok", bus |-> <<EvWireBegin>>]

\* initialize storing the address before it rejects the selector
initialize_stores_first(AD_addr) ==
    IF AD_addr > max_AD_addr
    THEN [init |-> FALSE, addr |-> BitOr(base_I2C_addr, AD_addr), err |-> EC_BAD_DEVICE_ADDR,
          ret |-> EC_BAD_DEVICE_ADDR, path |-> "bad_addr", bus |-> <<>>]
    ELSE [init |-> TRUE, addr |-> BitOr(base_I2C_addr, AD_addr), err |-> err_code,
          ret |-> 0, path |-> "ok", bus |-> <<EvWireBegin>>]

\* The handle after initialize(AD_addr): a successful call returns 0 without
\* assigning err_code.
initialize(AD_addr) ==
    IF AD_addr > max_AD_addr
    THEN [init |-> FALSE, addr |-> dev_addr, err |-> EC_BAD_DEVICE_ADDR,
          ret |-> EC_BAD_DEVICE_ADDR, path |-> "bad_addr", bus |-> <<>>]
    ELSE [init |-> TRUE, addr |-> BitOr(base_I2C_addr, AD_addr), err |-> err_code,
          ret |-> 0, path |-> "ok", bus |-> <<EvWireBegin>>]

\* ------------------------------------------------------------ the machine
\* Register file at power-on: the wipers are loaded from their EEMEM shadows.
PowerOnEEMEM == [k \in 0..max_EEMEM_register |-> IF k <= max_RDAC_register THEN 10 + k ELSE 0]
PowerOnRDAC == [k \in 0..max_RDAC_register |-> PowerOnEEMEM[k]]

Init ==
    /\ variant \in Variants
    /\ initialized = FALSE
    /\ dev_addr = 0
    /\ err_code = EC_NO_ERR
    /\ wire_begun = FALSE
    /\ rdac = PowerOnRDAC
    /\ eemem = PowerOnEEMEM
    /\ bus = <<>>
    /\ last = [op |-> "new", a1 |-> 0, a2 |-> 0, ret |-> 0, path |-> "ok"]
    /\ nops = 0

\* One call of a register or command method with outcome o.
Do(op, a1, a2, o) ==
    /\ err_code' = o.err
    /\ bus' = o.bus
    /\ rdac' = o.dev.r
    /\ eemem' = o.dev.e
    /\ last' = [op |-> op, a1 |-> a1, a2 |-> a2, ret |-> o.ret, path |-> o.path]
    /\ nops' = nops + 1
    /\ UNCHANGED <<variant, initialized, dev_addr, wire_begun>>

Initialize ==
    /\ nops < MaxOps
    /\ \E s \in SelectorSamples :
           LET o == initialize(s)
           IN  /\ initialized' = o.init
               /\ dev_addr' = o.addr
               /\ err_code' = o.err
               /\ bus' = o.bus
               /\ wire_begun' = (wire_begun \/ o.bus # <<>>)
               /\ last' = [op |-> "initialize", a1 |-> s, a2 |-> 0, ret |-> o.ret, path |-> o.path]
               /\ nops' = nops + 1
               /\ UNCHANGED <<variant, rdac, eemem>>

WriteRDAC ==
    /\ nops < MaxOps
    /\ \E i \in RDACSamples, v \in ValueSamples :
           \E e \in WriteReplies(write_RDAC(i, v, EC_NO_ERR)) :
           Do("write_RDAC", i, v, write_RDAC(i, v, e))

ReadRDAC ==
    /\ nops < MaxOps
    /\ \E i \in RDACSamples :
           \E reply \in ReadRepliesOf(read_RDAC(i, OkReply, 0)) :
           \E g \in DanglingRead(BitOr(RDAC_register, i), reply) :
               Do("read_RDAC", i, 0, read_RDAC(i, reply, g))

WriteEEMEM ==
    /\ nops < MaxOps
    /\ \E reg \in RegSamples, v \in ValueSamples :
           \E e \in WriteReplies(write_EEMEM(reg, v, EC_NO_ERR)) :
           Do("write_EEMEM", reg, v, write_EEMEM(reg, v, e))

ReadEEMEM ==
    /\ nops < MaxOps
    /\ \E reg \in RegSamples :
           \E reply \in ReadRepliesOf(read_EEMEM(reg, OkReply, 0)) :
           \E g \in DanglingRead(BitOr(EEMEM_register, reg), reply) :
               Do("read_EEMEM", reg, 0, read_EEMEM(reg, reply, g))

ReadTolerance ==
    /\ nops < MaxOps
    /\ \E i \in RDACSamples :
           \E reply1 \in ReadRepliesOf(read_tolerance(i, OkReply, 0, OkReply, 0)) :
           \E reply2 \in (IF reply1 = OkReply THEN ReadRepliesOf(read_tolerance(i, OkReply, 0, OkReply, 0))
                          ELSE {OkReply}) :
           LET a == BitOr(Tolerance_register, Shl8(i, 1))
           IN  \E g1 \in DanglingRead(a, reply1), g2 \in DanglingRead(BitOr(a, Tol_dec), reply2) :
                   Do("read_tolerance", i, 0, read_tolerance(i, reply1, g1, reply2, g2))

ResetDevice ==
    /\ nops < MaxOps
    /\ \E e \in WriteReplies(reset_device(EC_NO_ERR)) : Do("reset_device", 0, 0, reset_device(e))

RestoreRDAC ==
    /\ nops < MaxOps
    /\ \E i \in RDACSamples :
           \E e \in WriteReplies(restore_RDAC(i, EC_NO_ERR)) : Do("restore_RDAC", i, 0, restore_RDAC(i, e))

RestoreAllRDAC ==
    /\ nops < MaxOps
    /\ \E e \in WriteReplies(restore_all_RDAC(EC_NO_ERR)) : Do("restore_all_RDAC", 0, 0, restore_all_RDAC(e))

StoreRDAC ==
    /\ nops < MaxOps
    /\ \E i \in RDACSamples :
           \E e \in WriteReplies(store_RDAC(i, EC_NO_ERR)) : Do("store_RDAC", i, 0, store_RDAC(i, e))

DecrementRDAC ==
    /\ nops < MaxOps
    /\ \E i \in RDACSamples :
           \E e \in WriteReplies(decrement_RDAC(i, EC_NO_ERR)) : Do("decrement_RDAC", i, 0, decrement_RDAC(i, e))

IncrementRDAC ==
    /\ nops < MaxOps
    /\ \E i \in RDACSamples :
           \E e \in WriteReplies(increment_RDAC(i, EC_NO_ERR)) : Do("increment_RDAC", i, 0, increment_RDAC(i, e))

DecrementRDAC6dB ==
    /\ nops < MaxOps
    /\ \E i \in RDACSamples :
           \E e \in WriteReplies(decrement_RDAC_6dB(i, EC_NO_ERR)) : Do("decrement_RDAC_6dB", i, 0, decrement_RDAC_6dB(i, e))

IncrementRDAC6dB ==
    /\ nops < MaxOps
    /\ \E i \in RDACSamples :
           \E e \in WriteReplies(increment_RDAC_6dB(i, EC_NO_ERR)) : Do("increment_RDAC_6dB", i, 0, increment_RDAC_6dB(i, e))

DecrementAllRDAC ==
    /\ nops < MaxOps
    /\ \E e \in WriteReplies(decrement_all_RDAC(EC_NO_ERR)) : Do("decrement_all_RDAC", 0, 0, decrement_all_RDAC(e))

IncrementAllRDAC ==
    /\ nops < MaxOps
    /\ \E e \in WriteReplies(increment_all_RDAC(EC_NO_ERR)) : Do("increment_all_RDAC", 0, 0, increment_all_RDAC(e))

DecrementAllRDAC6dB ==
    /\ nops < MaxOps
    /\ \E e \in WriteReplies(decrement_all_RDAC_6dB(EC_NO_ERR)) : Do("decrement_all_RDAC_6dB", 0, 0, decrement_all_RDAC_6dB(e))

IncrementAllRDAC6dB ==
    /\ nops < MaxOps
    /\ \E e \in WriteReplies(increment_all_RDAC_6dB(EC_NO_ERR)) : Do("increment_all_RDAC_6dB", 0, 0, increment_all_RDAC_6dB(e))

GetMaxVal ==
    /\ nops < MaxOps
    /\ Do("get_max_val", 0, 0,
          [err |-> get_max_val.err, ret |-> get_max_val.ret,
           path |-> IF get_max_val.ret = 0 THEN "not_impl" ELSE "ok",
           bus |-> <<>>, dev |-> Unchanged])

get_err_code == err_code

Next ==
    \/ Initialize
    \/ WriteRDAC
    \/ ReadRDAC
    \/ WriteEEMEM
    \/ ReadEEMEM
    \/ ReadTolerance
    \/ ResetDevice
    \/ RestoreRDAC
    \/ RestoreAllRDAC
    \/ StoreRDAC
    \/ DecrementRDAC
    \/ IncrementRDAC
    \/ DecrementRDAC6dB
    \/ IncrementRDAC6dB
    \/ DecrementAllRDAC
    \/ IncrementAllRDAC
    \/ DecrementAllRDAC6dB
    \/ IncrementAllRDAC6dB
    \/ GetMaxVal

Spec == Init /\ [][Next]_vars

TypeOK ==
    /\ variant \in Variants
    /\ initialized \in BOOLEAN
    /\ err_code \in 0..10
    /\ dev_addr \in 0..255
    /\ \A k \in 0..max_RDAC_register : rdac[k] \in 0..255
    /\ \A k \in 0..max_EEMEM_register : eemem[k] \in 0..255
    /\ nops \in 0..MaxOps

\* ------------------------------------------- the tolerance conversion
\* read_tolerance's conversion on its own: tol_int_data and tol_dec_data, the
\* two bytes read_data_byte handed back without error, range over all of
\* uint8_t, and Decode is the conversion applied to them.
InitDecode ==
    /\ variant \in Concrete
    /\ initialized = TRUE
    /\ dev_addr = base_I2C_addr
    /\ err_code = EC_NO_ERR
    /\ wire_begun = TRUE
    /\ rdac = PowerOnRDAC
    /\ eemem = PowerOnEEMEM
    /\ bus = <<>>
    /\ nops = 0
    /\ \E tol_int_data \in 0..255, tol_dec_data \in 0..255 :
           last = [op |-> "tol_bytes", a1 |-> tol_int_data, a2 |-> tol_dec_data,
                   ret |-> 0, path |-> "ok"]

Decode ==
    /\ last.op = "tol_bytes"
    /\ last' = [last EXCEPT !.op = "TolDecode", !.ret = TolDecode(last.a1, last.a2)]
    /\ UNCHANGED <<variant, initialized, dev_addr, err_code, wire_begun, rdac, eemem, bus, nops>>

NextDecode == Decode

SpecDecode == InitDecode /\ [][NextDecode]_vars

\* ------------------------------------------------------------ vocabulary
ReadOps == {"read_RDAC", "read_EEMEM", "read_tolerance"}

IndexedCmdOps ==
    {"restore_RDAC", "store_RDAC", "decrement_RDAC", "increment_RDAC",
     "decrement_RDAC_6dB", "increment_RDAC_6dB"}

PlainCmdOps ==
    {"reset_device", "restore_all_RDAC", "decrement_all_RDAC", "increment_all_RDAC",
     "decrement_all_RDAC_6dB", "increment_all_RDAC_6dB"}

StatusOps == {"write_RDAC", "write_EEMEM"} \cup IndexedCmdOps \cup PlainCmdOps

\* the operations that need an initialized handle
DeviceOps == ReadOps \cup StatusOps

\* the operations whose first argument is a wiper index
WiperIndexOps == {"write_RDAC", "read_RDAC", "read_tolerance"} \cup IndexedCmdOps

\* A transaction of the call log b reported an error or a wrong byte count.
BusFailed(b) ==
    \E k \in 1..Len(b) :
        \/ b[k].call = "endTransmission" /\ b[k].res # 0
        \/ b[k].call = "requestFrom" /\ b[k].res # b[k].len

\* ------------------------------------------- the instruction bytes
\* Calls with every valid index on an initialized handle and an error-free
\* bus, to compare the instruction bytes of consecutive calls.
MaxCalls == 2

InstrValues == {63, 255}

IndexedCmd(op, RDAC, e) ==
    CASE op = "restore_RDAC" -> restore_RDAC(RDAC, e)
      [] op = "store_RDAC" -> store_RDAC(RDAC, e)
      [] op = "decrement_RDAC" -> decrement_RDAC(RDAC, e)
      [] op = "increment_RDAC" -> increment_RDAC(RDAC, e)
      [] op = "decrement_RDAC_6dB" -> decrement_RDAC_6dB(RDAC, e)
      [] op = "increment_RDAC_6dB" -> increment_RDAC_6dB(RDAC, e)

PlainCmd(op, e) ==
    CASE op = "reset_device" -> reset_device(e)
      [] op = "restore_all_RDAC" -> restore_all_RDAC(e)
      [] op = "decrement_all_RDAC" -> decrement_all_RDAC(e)
      [] op = "increment_all_RDAC" -> increment_all_RDAC(e)
      [] op = "decrement_all_RDAC_6dB" -> decrement_all_RDAC_6dB(e)
      [] op = "increment_all_RDAC_6dB" -> increment_all_RDAC_6dB(e)

\* The handle right after initialize(0).
InitInstr ==
    /\ variant \in Variants
    /\ initialized = TRUE
    /\ dev_addr = BitOr(base_I2C_addr, 0)
    /\ err_code = EC_NO_ERR
    /\ wire_begun = TRUE
    /\ rdac = PowerOnRDAC
    /\ eemem = PowerOnEEMEM
    /\ bus = <<EvWireBegin>>
    /\ last = [op |-> "initialize", a1 |-> 0, a2 |-> 0, ret |-> 0, path |-> "ok"]
    /\ nops = 0

WiperWrite ==
    /\ nops < MaxCalls
    /\ \E i \in 0..max_RDAC_register, v \in InstrValues :
           Do("write_RDAC", i, v, write_RDAC(i, v, EC_NO_ERR))

WiperRead ==
    /\ nops < MaxCalls
    /\ \E i \in 0..max_RDAC_register :
           \E g \in DanglingRead(BitOr(RDAC_register, i), OkReply) :
               Do("read_RDAC", i, 0, read_RDAC(i, OkReply, g))

EEMEMWrite ==
    /\ nops < MaxCalls
    /\ \E reg \in 0..max_EEMEM_register, v \in InstrValues :
           Do("write_EEMEM", reg, v, write_EEMEM(reg, v, EC_NO_ERR))

EEMEMRead ==
    /\ nops < MaxCalls
    /\ \E reg \in 0..max_EEMEM_register :
           \E g \in DanglingRead(BitOr(EEMEM_register, reg), OkReply) :
               Do("read_EEMEM", reg, 0, read_EEMEM(reg, OkReply, g))

ToleranceRead ==
    /\ nops < MaxCalls
    /\ \E i \in 0..max_RDAC_register :
           LET a == BitOr(Tolerance_register, Shl8(i, 1))
           IN  \E g1 \in DanglingRead(a, OkReply), g2 \in DanglingRead(BitOr(a, Tol_dec), OkReply) :
                   Do("read_tolerance", i, 0, read_tolerance(i, OkReply, g1, OkReply, g2))

IndexedCommand ==
    /\ nops < MaxCalls
    /\ \E op \in IndexedCmdOps, i \in 0..max_RDAC_register :
           Do(op, i, 0, IndexedCmd(op, i, EC_NO_ERR))

PlainCommand ==
    /\ nops < MaxCalls
    /\ \E op \in PlainCmdOps : Do(op, 0, 0, PlainCmd(op, EC_NO_ERR))

NextInstr ==
    \/ WiperWrite
    \/ WiperRead
    \/ EEMEMWrite
    \/ EEMEMRead
    \/ ToleranceRead
    \/ IndexedCommand
    \/ PlainCommand

SpecInstr == InitInstr /\ [][NextInstr]_vars

\* ------------------------------------------------------------------- C1
\* C1: for every selector s in [0,3], initialize(s) returns 0, leaves the
\* handle initialized and sets the bus address to 0x2C | s, one of 0x2C..0x2F,
\* whatever the handle's state before the call.
C1_InitializeValid ==
    (last.op = "initialize" /\ last.a1 <= 3)
        => /\ last.ret = 0
           /\ initialized
           /\ dev_addr = 44 + last.a1
           /\ dev_addr \in 44..47

C1_Witness ==
    /\ last.op = "initialize" /\ last.a1 = 3 /\ dev_addr = 47
    /\ nops = 3 /\ err_code # 0

\* ------------------------------------------------------------------- C2
\* C2: for every selector s > 3, initialize(s) returns 8, sets last_error to
\* 8, does not open the transport and leaves the handle uninitialized, also
\* when it was initialized before; while the handle is uninitialized every
\* register or command operation fails with 10 and the handle stays
\* uninitialized until an initialize succeeds.
C2_InitializeInvalid ==
    [][ /\ (last'.op = "initialize" /\ last'.a1 > 3)
            => /\ last'.ret = 8
               /\ err_code' = 8
               /\ ~initialized'
               /\ bus' = <<>>
               /\ wire_begun' = wire_begun
        /\ (~initialized /\ last'.op # "initialize")
            => /\ ~initialized'
               /\ (last'.op \in DeviceOps => err_code' = 10) ]_vars

\* an operation refused after a failed initialize on a handle that had been
\* initialized before (the transport was opened, the handle is uninitialized)
C2_Witness ==
    /\ wire_begun /\ ~initialized
    /\ last.op \in DeviceOps /\ err_code = 10

\* ------------------------------------------------------------------- C3
\* C3: a successful initialize clears last_error: after initialize(s) with s
\* in [0,3] returns, get_err_code() is 0 whatever last_error was before.
C3_InitializeClearsError ==
    (last.op = "initialize" /\ last.a1 <= 3) => get_err_code = 0

\* ------------------------------------------------------------------- C4
\* C4: on a handle that is not initialized, every register operation and
\* every device command, for every argument, sets last_error to 10 and makes
\* no transport call; status-returning operations return 10, reads return 0.
C4_NotInitialized ==
    [][ (~initialized /\ last'.op \in DeviceOps)
            => /\ err_code' = 10
               /\ bus' = <<>>
               /\ last'.ret = (IF last'.op \in ReadOps THEN 0 ELSE 10)
               /\ rdac' = rdac /\ eemem' = eemem ]_vars

C4_Witness ==
    /\ ~initialized /\ last.op = "read_tolerance" /\ last.a1 <= 3
    /\ err_code = 10 /\ last.ret = 0 /\ bus = <<>>

\* ------------------------------------------------------------------- C5
\* C5 as stated: on an initialized handle every operation taking a wiper
\* index called with index > 3, and read_nv and write_nv called with
\* reg > 15, fails with last_error = 5.
C5_Original ==
    [][ (/\ initialized
         /\ \/ last'.op \in WiperIndexOps /\ last'.a1 > 3
            \/ last'.op \in {"read_EEMEM", "write_EEMEM"} /\ last'.a1 > 15)
            => err_code' = 5 ]_vars

\* C5 amended: as stated, except that write_nv with reg > 15 reports 5 only
\* on a concrete variant; on the undifferentiated base type write_nv reports
\* 9 (capability-not-implemented) before it looks at reg.
C5_BadRegister ==
    [][ /\ (/\ initialized
            /\ \/ last'.op \in WiperIndexOps /\ last'.a1 > 3
               \/ last'.op = "read_EEMEM" /\ last'.a1 > 15
               \/ last'.op = "write_EEMEM" /\ last'.a1 > 15 /\ variant \in Concrete)
               => (err_code' = 5 /\ bus' = <<>>)
        /\ (initialized /\ last'.op = "write_EEMEM" /\ variant \notin Concrete)
               => err_code' = 9 ]_vars

C5_Witness ==
    /\ initialized /\ variant \in Concrete
    /\ last.op = "write_EEMEM" /\ last.a1 = 16 /\ err_code = 5

\* ------------------------------------------------------------------- C6
\* C6 as stated: on an initialized concrete variant write_wiper(i, v) with i
\* in [0,3] fails with 6 exactly when v > variant.max, and
\* write_wiper(i, variant.max + 1) fails with 6 on both variants (the value
\* argument is a byte, so variant.max + 1 arrives modulo 256).
C6_Original ==
    [][ (/\ initialized /\ variant \in Concrete
         /\ last'.op = "write_RDAC" /\ last'.a1 <= 3)
            => LET max == IF variant = "AD5253" THEN 63 ELSE 255
               IN  /\ (err_code' = 6) <=> (last'.a2 > max)
                   /\ (last'.a2 = U8(max + 1)) => err_code' = 6 ]_vars

\* C6 amended: write_wiper(i, v) with i in [0,3] fails with 6 exactly when
\* the byte v exceeds variant.max, and every v <= variant.max reaches the
\* bus; write_wiper(i, 64) fails on the 63-max variant, and on the 255-max
\* variant no byte is rejected.
C6_BadWiperSetting ==
    [][ (/\ initialized /\ variant \in Concrete
         /\ last'.op = "write_RDAC" /\ last'.a1 <= 3)
            => LET max == IF variant = "AD5253" THEN 63 ELSE 255
               IN  /\ (err_code' = 6) <=> (last'.a2 > max)
                   /\ (last'.a2 > max) => (bus' = <<>> /\ last'.ret = 6)
                   /\ (last'.a2 <= max) => bus' # <<>>
                   /\ (variant = "AD5253" /\ last'.a2 = 64) => err_code' = 6
                   /\ (variant = "AD5254") => err_code' # 6 ]_vars

C6_Witness ==
    /\ initialized /\ variant = "AD5253"
    /\ last.op = "write_RDAC" /\ last.a1 = 3 /\ last.a2 = 64 /\ err_code = 6

\* ------------------------------------------------------------------- C7
\* C7: on an initialized handle write_wiper(i, v) with i in [0,3] and
\* v <= variant.max issues exactly one transaction, addressed to the bus
\* address, with the bytes (0x00 | i, v) in that order, and its return value
\* and last_error both equal the result of end_transaction.
C7_WriteWiperTransaction ==
    [][ (/\ initialized /\ variant \in Concrete
         /\ last'.op = "write_RDAC" /\ last'.a1 <= 3
         /\ last'.a2 <= (IF variant = "AD5253" THEN 63 ELSE 255))
            => /\ Len(bus') = 4
               /\ bus'[1].call = "beginTransmission" /\ bus'[1].arg = dev_addr
               /\ bus'[2].call = "write" /\ bus'[2].arg = last'.a1
               /\ bus'[3].call = "write" /\ bus'[3].arg = last'.a2
               /\ bus'[4].call = "endTransmission"
               /\ last'.ret = bus'[4].res
               /\ err_code' = bus'[4].res ]_vars

C7_Witness ==
    /\ initialized /\ last.op = "write_RDAC" /\ last.a1 = 2 /\ last.a2 = 63
    /\ Len(bus) = 4 /\ bus[4].res = 4 /\ last.ret = 4 /\ err_code = 4

\* ------------------------------------------------------------------- C8
\* C8: round trip: over a transport that stores written values and echoes
\* them without error, write_wiper(i, v) followed by read_wiper(i) returns v
\* with last_error = 0 and leaves the other wiper registers unchanged.
C8_RoundTrip ==
    [][ (/\ last.op = "write_RDAC" /\ last.a1 <= 3 /\ bus # <<>> /\ ~BusFailed(bus)
         /\ last'.op = "read_RDAC" /\ last'.a1 = last.a1
         /\ bus' # <<>> /\ ~BusFailed(bus'))
            => /\ last'.ret = last.a2
               /\ err_code' = 0
               /\ rdac' = rdac ]_vars

\* ------------------------------------------------------------------- C9
\* C9: whenever read_wiper, read_nv or read_tolerance fails (not initialized,
\* index out of range, transport error on either transaction, wrong byte
\* count) it returns 0 and last_error is non-zero; whenever it succeeds
\* last_error is 0.
C9_ReadErrorChannel ==
    [][ (last'.op \in ReadOps)
            => LET limit == IF last'.op = "read_EEMEM" THEN 15 ELSE 3
                   failed == ~initialized \/ last'.a1 > limit \/ BusFailed(bus')
               IN  /\ failed => (last'.ret = 0 /\ err_code' # 0)
                   /\ ~failed => err_code' = 0 ]_vars

\* the fraction read of read_tolerance fails after the integer read succeeded
C9_Witness ==
    /\ last.op = "read_tolerance" /\ Len(bus) > 8 /\ BusFailed(bus)
    /\ last.ret = 0 /\ err_code = 7

\* ------------------------------------------------------------------ C10
\* C10: on an initialized concrete variant write_nv(reg, value) with reg in
\* [0,3] fails with 6 if value exceeds the variant max, and otherwise passes
\* validation and writes the value to instruction byte 0x20 | reg.
C10_ShadowWrite ==
    [][ (/\ initialized /\ variant \in Concrete
         /\ last'.op = "write_EEMEM" /\ last'.a1 <= 3)
            => IF last'.a2 > (IF variant = "AD5253" THEN 63 ELSE 255)
               THEN err_code' = 6 /\ bus' = <<>>
               ELSE /\ Len(bus') = 4
                    /\ bus'[2].call = "write" /\ bus'[2].arg = 32 + last'.a1
                    /\ bus'[3].call = "write" /\ bus'[3].arg = last'.a2 ]_vars

C12_UserRegisterWrite ==
    [][ (/\ initialized /\ variant \in Concrete
         /\ last'.op = "write_EEMEM" /\ last'.a1 >= 4 /\ last'.a1 <= 15)
            => /\ Len(bus') = 4
               /\ bus'[1].call = "beginTransmission" /\ bus'[1].arg = dev_addr
               /\ bus'[2].call = "write" /\ bus'[2].arg = 32 + last'.a1
               /\ bus'[3].call = "write" /\ bus'[3].arg = last'.a2
               /\ bus'[4].call = "endTransmission"
               /\ (bus'[4].res = 0) => (last'.ret = 0 /\ err_code' = 0) ]_vars

\* a value above the 63-max variant's limit stored in a user register
C12_Witness ==
    /\ initialized /\ variant = "AD5253"
    /\ last.op = "write_EEMEM" /\ last.a1 = 4 /\ last.a2 = 255
    /\ err_code = 0 /\ last.ret = 0 /\ eemem[4] = 255

\* ------------------------------------------------------------------ C13
\* C13: on an initialized handle each per-index command called with i in
\* [0,3] issues exactly one transaction holding the single byte opcode | i and
\* no data byte (restore 0x88, store 0x90, decrement_6dB 0x98, decrement_step
\* 0xA8, increment_6dB 0xC0, increment_step 0xD0), and returns the result of
\* end_transaction.
C13_IndexedOpcode ==
    [][ (initialized /\ last'.op \in IndexedCmdOps /\ last'.a1 <= 3)
            => LET opcode == CASE last'.op = "restore_RDAC" -> 136
                               [] last'.op = "store_RDAC" -> 144
                               [] last'.op = "decrement_RDAC_6dB" -> 152
                               [] last'.op = "decrement_RDAC" -> 168
                               [] last'.op = "increment_RDAC_6dB" -> 192
                               [] last'.op = "increment_RDAC" -> 208
               IN  /\ Len(bus') = 3
                   /\ bus'[1].call = "beginTransmission" /\ bus'[1].arg = dev_addr
                   /\ bus'[2].call = "write" /\ bus'[2].arg = opcode + last'.a1
                   /\ bus'[3].call = "endTransmission"
                   /\ last'.ret = bus'[3].res ]_vars

\* restore_wiper(2) puts 0x8A on the bus
C13_Witness ==
    /\ initialized /\ last.op = "restore_RDAC" /\ last.a1 = 2
    /\ Len(bus) = 3 /\ bus[2].arg = 138 /\ last.ret = 0

\* ------------------------------------------------------------------ C14
\* C14: on an initialized handle each command without an index issues
\* exactly one transaction holding exactly its opcode byte: reset 0x80,
\* decrement_6dB_all 0xA0, decrement_step_all 0xB0, restore_all 0xB8,
\* increment_6dB_all 0xC8, increment_step_all 0xD8.
C14_PlainOpcode ==
    [][ (initialized /\ last'.op \in PlainCmdOps)
            => LET opcode == CASE last'.op = "reset_device" -> 128
                               [] last'.op = "decrement_all_RDAC_6dB" -> 160
                               [] last'.op = "decrement_all_RDAC" -> 176
                               [] last'.op = "restore_all_RDAC" -> 184
                               [] last'.op = "increment_all_RDAC_6dB" -> 200
                               [] last'.op = "increment_all_RDAC" -> 216
               IN  /\ Len(bus') = 3
                   /\ bus'[1].call = "beginTransmission" /\ bus'[1].arg = dev_addr
                   /\ bus'[2].call = "write" /\ bus'[2].arg = opcode
                   /\ bus'[3].call = "endTransmission" ]_vars

C14_Witness ==
    /\ initialized /\ last.op = "increment_all_RDAC_6dB"
    /\ Len(bus) = 3 /\ bus[2].arg = 200

\* ------------------------------------------------------------------ C15
\* C15: in units of 1/256, for every integer byte a and fraction byte f read
\* without error the decoded tolerance is s * (a AND 0x7F) + f/256 with
\* s = -1 when a has bit 0x80 set and +1 otherwise: bit 7 of f weighs 2^-1
\* down to bit 0 weighing 2^-8, and the sign applies to the integer magnitude
\* only.  (0x05, 0x80) gives 5.5 = 1408/256, (0x85, 0x00) gives -5.0.
C15_ToleranceDecode ==
    last.op = "TolDecode"
        => LET a == last.a1
               f == last.a2
               s == IF a >= 128 THEN 0 - 1 ELSE 1
           IN  /\ last.ret = s * (a % 128) * 256 + f
               /\ (a = 5 /\ f = 128) => last.ret = 1408
               /\ (a = 133 /\ f = 0) => last.ret = 0 - 1280

\* a negative integer part with a fraction: -5 + 0.5
C15_Witness ==
    last.op = "TolDecode" /\ last.a1 = 133 /\ last.a2 = 128 /\ last.ret = 0 - 1152

\* ------------------------------------------------------------------ C16
\* C16: get_max_val is a pure lookup on the concrete variants: it returns 63
\* on the AD5253 and 255 on the AD5254, makes no bus call and leaves
\* last_error, initialized, the bus address and the registers unchanged; on
\* the base type it returns 0 and sets last_error to 9.
C16_GetMaxVal ==
    [][ (last'.op = "get_max_val")
            => /\ bus' = <<>>
               /\ initialized' = initialized /\ dev_addr' = dev_addr
               /\ rdac' = rdac /\ eemem' = eemem
               /\ (variant = "AD5253") => (last'.ret = 63 /\ err_code' = err_code)
               /\ (variant = "AD5254") => (last'.ret = 255 /\ err_code' = err_code)
               /\ (variant = "AD525x") => (last'.ret = 0 /\ err_code' = 9) ]_vars

\* the lookup answered while an earlier error is still stored
C16_Witness ==
    /\ last.op = "get_max_val" /\ variant = "AD5253" /\ last.ret = 63
    /\ initialized /\ err_code = 5

\* ------------------------------------------------------------------ C17
\* C17: on a concrete variant every register read, register write and device
\* command overwrites last_error: afterwards it is 0 if the call succeeded
\* and the call's own error code otherwise, whatever it held before.  The
\* call's own code is fixed by the handle, the arguments and the bus replies:
\* 10 on a handle not initialized, 5 for an index out of range, 6 for a
\* rejected value, the failing transaction's code (7 for a wrong byte count)
\* on a bus error.
C17_ErrorOverwritten ==
    [][ (variant \in Concrete /\ last'.op \in DeviceOps)
            => LET b == bus'
                   bad == {k \in 1..Len(b) :
                              \/ b[k].call = "endTransmission" /\ b[k].res # 0
                              \/ b[k].call = "requestFrom" /\ b[k].res # b[k].len}
                   first == CHOOSE k \in bad : \A j \in bad : k <= j
                   limit == IF last'.op \in {"write_EEMEM", "read_EEMEM"} THEN 15 ELSE 3
                   own == IF b = <<>>
                          THEN (IF ~initialized THEN 10
                                ELSE IF last'.a1 > limit THEN 5 ELSE 6)
                          ELSE IF bad = {} THEN 0
                          ELSE IF b[first].call = "requestFrom" THEN 7
                          ELSE b[first].res
               IN  err_code' = own ]_vars

\* a call that succeeded on the bus and left no error behind
C17_Witness ==
    /\ variant \in Concrete /\ nops = MaxOps
    /\ last.op = "store_RDAC" /\ Len(bus) = 3 /\ ~BusFailed(bus) /\ err_code = 0

\* ------------------------------------------------------------------ C18
\* C18: fail-fast validation: whenever an operation fails its local
\* validation (handle not initialized, index out of bounds, wiper value out
\* of bounds; a register or command operation reporting 10, 5 or 6,
\* initialize returning 8) no Wire call is made during the operation and the
\* device's registers are unchanged.
C18_FailFast ==
    [][ (\/ last'.op \in DeviceOps /\ ~initialized
         \/ last'.op \in WiperIndexOps /\ last'.a1 > 3
         \/ last'.op \in {"write_EEMEM", "read_EEMEM"} /\ last'.a1 > 15
         \/ last'.op = "initialize" /\ last'.a1 > 3
         \/ /\ last'.op = "write_RDAC" /\ variant \in Concrete
            /\ last'.a2 > (IF variant = "AD5253" THEN 63 ELSE 255)
         \/ last'.op \in DeviceOps /\ err_code' \in {5, 6, 10}
         \/ last'.op = "initialize" /\ last'.ret = 8)
            => /\ bus' = <<>>
               /\ rdac' = rdac
               /\ eemem' = eemem ]_vars

\* an index rejected on an initialized handle
C18_Witness ==
    /\ initialized /\ last.op = "store_RDAC" /\ last.a1 = 4
    /\ err_code = 5 /\ bus = <<>>

\* ------------------------------------------------------------------ C19
\* C19: transport errors propagate verbatim: when endTransmission returns a
\* code e in 1..4 during an operation, last_error after the operation is e,
\* and the write and command operations return e.
C19_TransportVerbatim ==
    [][ \A k \in 1..Len(bus') :
            (/\ last'.op \in DeviceOps
             /\ bus'[k].call = "endTransmission"
             /\ bus'[k].res \in 1..4)
                => /\ err_code' = bus'[k].res
                   /\ (last'.op \in StatusOps) => (last'.ret = bus'[k].res) ]_vars

\* the transaction that closes a read fails with "other error"
C19_Witness ==
    /\ last.op = "read_EEMEM" /\ Len(bus) = 8
    /\ bus[8].call = "endTransmission" /\ bus[8].res = 4 /\ err_code = 4

\* ------------------------------------------------------------------ C20
\* C20: no retry: within one operation no instruction or command byte (the
\* byte written first after beginTransmission) is transmitted more than once,
\* once a Wire call of the operation has reported an error the operation
\* makes no further write or requestFrom call, and the failure is left in
\* last_error.
C20_NoRetry ==
    [][ (last'.op \in DeviceOps)
            => LET b == bus'
                   instr == {k \in 2..Len(b) :
                                b[k].call = "write" /\ b[k-1].call = "beginTransmission"}
                   bad == {k \in 1..Len(b) :
                              \/ b[k].call = "endTransmission" /\ b[k].res # 0
                              \/ b[k].call = "requestFrom" /\ b[k].res # b[k].len}
               IN  /\ \A j, k \in instr : (b[j].arg = b[k].arg) => (j = k)
                   /\ \A k \in bad : \A j \in (k+1)..Len(b) :
                          b[j].call \notin {"write", "requestFrom"}
                   /\ (bad # {}) => (err_code' # 0) ]_vars

\* the integer byte of a tolerance read fails and the fraction is not asked for
C20_Witness ==
    /\ last.op = "read_tolerance" /\ Len(bus) = 3 /\ BusFailed(bus) /\ err_code # 0

\* ------------------------------------------------------------------ C21
\* C21: stored wiper values stay valid: starting from a chip whose four wiper
\* registers and four wiper-shadow EEMEM registers hold values <= the variant
\* maximum, after any sequence of driver operations every wiper register and
\* every wiper-shadow register still holds a value <= the variant maximum.
C21_StoredValuesValid ==
    (variant \in Concrete)
        => \A k \in 0..3 :
               /\ rdac[k] <= (IF variant = "AD5253" THEN 63 ELSE 255)
               /\ eemem[k] <= (IF variant = "AD5253" THEN 63 ELSE 255)

\* ------------------------------------------------------------------ C22
\* C22: read_wiper(i) with i in [0,3] and read_nv(reg) with reg in [0,15] on
\* an initialized handle perform, in this order, a write transaction carrying
\* only the instruction byte (0x00 | i, respectively 0x20 | reg) and then a
\* request for exactly one byte from the same bus address; the request is
\* issued only if the instruction transaction ended without error, and on
\* success the returned value is the byte the transport delivered.
C22_ReadSequence ==
    [][ (/\ initialized
         /\ \/ last'.op = "read_RDAC" /\ last'.a1 <= 3
            \/ last'.op = "read_EEMEM" /\ last'.a1 <= 15)
            => LET b == bus'
                   instr == IF last'.op = "read_RDAC" THEN last'.a1 ELSE 32 + last'.a1
                   requests == {k \in 1..Len(b) : b[k].call = "requestFrom"}
               IN  /\ Len(b) >= 3
                   /\ b[1].call = "beginTransmission" /\ b[1].arg = dev_addr
                   /\ b[2].call = "write" /\ b[2].arg = instr
                   /\ b[3].call = "endTransmission"
                   /\ (b[3].res = 0) <=> (Cardinality(requests) = 1)
                   /\ \A k \in requests : k > 3 /\ b[k].arg = dev_addr /\ b[k].len = 1
                   /\ (err_code' = 0)
                          => \E k \in 1..Len(b) : b[k].call = "read" /\ last'.ret = b[k].res ]_vars

\* ------------------------------------------------------------------ C23
\* C23: read_tolerance(i) with i in [0,3] on an initialized handle reads the
\* integer byte at instruction 0x38 | (i << 1) first and the fraction byte at
\* 0x38 | (i << 1) | 1 second; if the integer read fails the fraction read is
\* not issued, and a failure of either read makes the call return 0 with
\* last_error equal to the error of the failing read.
C23_ToleranceOrder ==
    [][ (initialized /\ last'.op = "read_tolerance" /\ last'.a1 <= 3)
            => LET b == bus'
                   writes == {k \in 1..Len(b) : b[k].call = "write"}
                   bad == {k \in 1..Len(b) :
                              \/ b[k].call = "endTransmission" /\ b[k].res # 0
                              \/ b[k].call = "requestFrom" /\ b[k].res # b[k].len}
                   failing == CHOOSE k \in bad : TRUE
               IN  /\ 2 \in writes /\ b[2].arg = 56 + 2 * last'.a1
                   /\ \A k \in writes \ {2} :
                          /\ b[k].arg = 56 + 2 * last'.a1 + 1
                          /\ \A j \in bad : j > k
                   /\ Cardinality(writes) <= 2
                   /\ (\A j \in bad : j > 8) => (Cardinality(writes) = 2)
                   /\ Cardinality(bad) <= 1
                   /\ (bad # {})
                          => /\ last'.ret = 0
                             /\ err_code' = (IF b[failing].call = "requestFrom" THEN 7
                                             ELSE b[failing].res) ]_vars

\* the integer byte was read, then the fraction read failed
C23_Witness ==
    /\ initialized /\ last.op = "read_tolerance" /\ last.a1 = 3
    /\ Len(bus) > 8 /\ bus[2].arg = 62 /\ bus[10].arg = 63
    /\ BusFailed(bus) /\ last.ret = 0 /\ err_code # 0

\* ------------------------------------------------------------------ C24
\* C24: when a read operation's request for one byte returns a byte count
\* different from 1, the operation sets last_error to 7, returns 0 and takes
\* no byte from the transport.
C24_BadReadSize ==
    [][ \A k \in 1..Len(bus') :
            (/\ last'.op \in ReadOps
             /\ bus'[k].call = "requestFrom" /\ bus'[k].len = 1 /\ bus'[k].res # 1)
                => /\ err_code' = 7
                   /\ last'.ret = 0
                   /\ \A j \in (k+1)..Len(bus') :
                          bus'[j].call \notin {"available", "read"} ]_vars

\* two bytes arrive where one was asked for
C24_Witness ==
    /\ last.op = "read_RDAC" /\ Len(bus) = 5
    /\ bus[5].call = "requestFrom" /\ bus[5].res = 2
    /\ err_code = 7 /\ last.ret = 0

\* ------------------------------------------------------------------ C25
\* C25: validation precedence: when several preconditions of one call are
\* violated, the reported error is the first in the order not-initialized
\* (10), invalid register index (5), invalid wiper value (6); write_wiper(4,
\* 64) on an uninitialized 63-max handle reports 10 and on an initialized one
\* reports 5, never 6.
C25_Precedence ==
    [][ (last'.op \in DeviceOps)
            => LET max == IF variant = "AD5253" THEN 63 ELSE 255
                   badidx == \/ last'.op \in WiperIndexOps /\ last'.a1 > 3
                             \/ last'.op \in {"write_EEMEM", "read_EEMEM"} /\ last'.a1 > 15
                   badval == /\ variant \in Concrete
                             /\ last'.a2 > max
                             /\ \/ last'.op = "write_RDAC"
                                \/ last'.op = "write_EEMEM" /\ last'.a1 <= 3
               IN  /\ (~initialized /\ (badidx \/ badval))
                          => (err_code' = 10 /\ last'.ret = IF last'.op \in ReadOps THEN 0 ELSE 10)
                   /\ (initialized /\ badidx /\ badval)
                          => (err_code' = 5 /\ last'.ret = 5) ]_vars

C25_Witness ==
    /\ initialized /\ variant = "AD5253"
    /\ last.op = "write_RDAC" /\ last.a1 = 4 /\ last.a2 = 64
    /\ err_code = 5 /\ last.ret = 5

\* ------------------------------------------------------------------ C26
\* C26: every beginTransmission and requestFrom is addressed to 0x2C | s, s
\* being the selector of the most recent successful initialize; a successful
\* initialize(s) sets the bus address to 0x2C | s, no other operation changes
\* it, and a failed initialize leaves it unchanged.
C26_BusAddress ==
    [][ /\ IF last'.op = "initialize" /\ last'.a1 <= 3
           THEN dev_addr' = 44 + last'.a1
           ELSE dev_addr' = dev_addr
        /\ \A k \in 1..Len(bus') :
               (bus'[k].call \in {"beginTransmission", "requestFrom"})
                   => /\ bus'[k].arg = dev_addr
                      /\ initialized
                      /\ dev_addr \in 44..47 ]_vars

\* a command sent after the handle was given selector 3
C26_Witness ==
    /\ last.op = "store_RDAC" /\ Len(bus) = 3
    /\ bus[1].call = "beginTransmission" /\ bus[1].arg = 47 /\ dev_addr = 47

\* ------------------------------------------------------------------ C27
\* C27: transactions are bracketed: on every path through every operation,
\* the error paths of a read included (instruction not acknowledged, wrong
\* byte count), each beginTransmission is followed by an endTransmission
\* before the operation returns.
C27_Bracketed ==
    \A k \in 1..Len(bus) :
        (bus[k].call = "beginTransmission")
            => \E j \in (k+1)..Len(bus) :
                   /\ bus[j].call = "endTransmission"
                   /\ \A m \in (k+1)..(j-1) : bus[m].call # "beginTransmission"

\* ------------------------------------------------------------------ C28
\* C28: instruction bytes are unambiguous: over all operations and all valid
\* indices the first byte of a transaction lies in 0x00..0x03 for wiper
\* access, 0x20..0x2F for EEMEM access, 0x38..0x3F for tolerance access and
\* 0x80..0xDB for commands, these ranges are pairwise disjoint, and two
\* command calls with different (command, index) pairs never send the same
\* byte.
C28_Unambiguous ==
    [][ LET b == bus'
            range == IF last'.op \in {"read_RDAC", "write_RDAC"} THEN 0..3
                     ELSE IF last'.op \in {"read_EEMEM", "write_EEMEM"} THEN 32..47
                     ELSE IF last'.op = "read_tolerance" THEN 56..63
                     ELSE 128..219
            ranges == <<0..3, 32..47, 56..63, 128..219>>
            cmds == IndexedCmdOps \cup PlainCmdOps
        IN  /\ \A k \in 2..Len(b) :
                   (b[k].call = "write" /\ b[k-1].call = "beginTransmission")
                       => b[k].arg \in range
            /\ \A m, n \in 1..4 : (m # n) => (ranges[m] \cap ranges[n] = {})
            /\ (/\ last.op \in cmds /\ last'.op \in cmds
                /\ <<last.op, last.a1>> # <<last'.op, last'.a1>>)
                   => bus[2].arg # b[2].arg ]_vars

\* increment_RDAC(3) following increment_all_RDAC: 0xD3 after 0xD8
C28_Witness ==
    /\ last.op = "increment_RDAC" /\ last.a1 = 3 /\ nops = 2
    /\ Len(bus) = 3 /\ bus[2].arg = 211

\* ------------------------------------------------------------------ C29
\* C29: on an initialized handle of the base type write_wiper(i, v) with i in
\* [0,3] and write_nv(reg, v) with any reg fail with last_error = 9 for every
\* v and make no transport call, while write_wiper with i > 3 still reports
\* invalid register index (5).
C29_BaseTypeWrites ==
    [][ (initialized /\ variant = "AD525x" /\ last'.op \in {"write_RDAC", "write_EEMEM"})
            => /\ bus' = <<>>
               /\ rdac' = rdac /\ eemem' = eemem
               /\ err_code' = (IF last'.op = "write_RDAC" /\ last'.a1 > 3 THEN 5 ELSE 9)
               /\ last'.ret = err_code' ]_vars

\* a register index beyond the EEMEM still answers 9 on the base type
C29_Witness ==
    /\ initialized /\ variant = "AD525x"
    /\ last.op = "write_EEMEM" /\ last.a1 = 16 /\ err_code = 9 /\ bus = <<>>

====
